---- MODULE Spec2Model ----
(***************************************************************************)
(* Model of the multi-client Service.SlotDuration (package multi) and of   *)
(* the Erroring decorator (package testclients) of go-eth2-client.         *)
(*                                                                         *)
(* Several callers run Service.SlotDuration concurrently against the       *)
(* roster s.activeClients, which is guarded by the sync.RWMutex            *)
(* s.clientMu; a roster replacement takes the same mutex for writing.      *)
(* A roster entry is an eth2client.Service: a plain client that does or    *)
(* does not implement SlotDurationProvider, or an Erroring decorator       *)
(* around such a client.                                                   *)
(***************************************************************************)
EXTENDS Integers, Sequences, FiniteSets, TLC

\* ---- bounds ----------------------------------------------------------
NumEndpoints == 3
NumCallers == 2
\* error rates and rolls are counted in units of 1/RateDen
RateDen == 2

Endpoints == 1..NumEndpoints
Callers == 1..NumCallers

\* ---- values returned by the operations ---------------------------------
None == "nil"
ErrNoActive == "no active Ethereum 2 clients"
ErrInjected == "error"
ErrUnsupported == "does not support this call"
ErrEndpoint == "endpoint error"
ErrCanceled == "context canceled"

ZeroDuration == 0
Durations == {6, 12}

Outcome(v, e) == [val |-> v, err |-> e]
NoOutcome == Outcome(ZeroDuration, "pending")

VARIABLES
  activeClients,  \* s.activeClients: sequence of endpoints
  readers,        \* callers holding s.clientMu for reading
  writer,         \* the roster replacement: "none", "waiting", "held"
  pc,             \* position of each caller inside SlotDuration
  ctxDone,        \* the caller's context has been cancelled
  reads,          \* the values of s.activeClients the call has read, in order
  invoked,        \* endpoints whose SlotDuration the call has invoked, in order
  response,       \* what the invoked endpoint returned
  result,         \* what SlotDuration returned to its caller
  probeRequests,  \* endpoints for which an out-of-cycle probe was requested
  errorRate,      \* the errorRate the Erroring clients were created with
  argNext,        \* NewErroring's argument next
  argErrorRate,   \* NewErroring's argument errorRate
  erroring,       \* the client NewErroring returned
  newErr,         \* the error NewErroring returned
  epc,            \* position of the caller of the Erroring client
  call,           \* the operation called on the Erroring client, with its argument
  nextLog,        \* the calls made on the wrapped service during the operation
  nextRet,        \* what the wrapped service's operation returned
  ret             \* what the Erroring client's operation returned

multiVars == <<activeClients, readers, writer, pc, ctxDone,
               reads, invoked, response, result, probeRequests, errorRate>>

erroringVars == <<argNext, argErrorRate, erroring, newErr, epc, call,
                  nextLog, nextRet, ret>>

vars == <<activeClients, readers, writer, pc, ctxDone,
          reads, invoked, response, result, probeRequests, errorRate,
          argNext, argErrorRate, erroring, newErr, epc, call,
          nextLog, nextRet, ret>>

\* ---- float64 ---------------------------------------------------------------
\* an error rate is a float64: a number, in units of 1/RateDen, or NaN, with
\* which every comparison is false
Float(n) == [nan |-> FALSE, num |-> n]
NaN == [nan |-> TRUE, num |-> 0]
Less(a, b) == ~a.nan /\ ~b.nan /\ a.num < b.num

\* ---- the endpoints -------------------------------------------------------
\* decorated: the roster entry is an *Erroring; errorRate: its field, in
\* units of 1/RateDen; provides: the (wrapped) client implements
\* eth2client.SlotDurationProvider.
ErrorRates == 0..RateDen
Rolls == 0..(RateDen - 1)

ClientKinds ==
  [decorated : {FALSE}, errorRate : {Float(0)}, provides : BOOLEAN]
    \cup [decorated : {TRUE}, errorRate : {Float(r) : r \in ErrorRates}, provides : BOOLEAN]

\* the configured endpoints, in configuration order: an Erroring around a
\* provider, a plain client without SlotDuration, a plain provider, an
\* Erroring around a client without SlotDuration, and so on
Client(e) ==
  CASE e % 4 = 1 -> [decorated |-> TRUE, errorRate |-> Float(errorRate), provides |-> TRUE]
    [] e % 4 = 2 -> [decorated |-> FALSE, errorRate |-> Float(0), provides |-> FALSE]
    [] e % 4 = 3 -> [decorated |-> FALSE, errorRate |-> Float(0), provides |-> TRUE]
    [] OTHER -> [decorated |-> TRUE, errorRate |-> Float(errorRate), provides |-> FALSE]

\* every sequence of distinct endpoints in configuration order
RECURSIVE SubSeqs(_)
SubSeqs(n) ==
  IF n = 0 THEN {<<>>}
  ELSE LET shorter == SubSeqs(n - 1)
       IN shorter \cup {Append(s, n) : s \in shorter}

Rosters == SubSeqs(NumEndpoints)

Range(s) == {s[i] : i \in 1..Len(s)}

\* ---- Erroring ------------------------------------------------------------
\* maybeError: roll := rand.Float64(); roll < s.errorRate
maybeError(k, roll) == Less(Float(roll), k.errorRate)

\* the wrapped wire-level client: honours the context, otherwise answers
\* with a duration or fails
WireSlotDuration(cancelled) ==
  IF cancelled THEN {Outcome(ZeroDuration, ErrCanceled)}
  ELSE {Outcome(d, None) : d \in Durations} \cup {Outcome(ZeroDuration, ErrEndpoint)}

\* Erroring.SlotDuration
ErroringSlotDuration(k, roll, wire) ==
  IF maybeError(k, roll) THEN Outcome(ZeroDuration, ErrInjected)
  ELSE IF ~k.provides THEN Outcome(ZeroDuration, ErrUnsupported)
  ELSE wire

\* the SlotDuration method of roster entry k
ClientSlotDuration(k, roll, wire) ==
  IF k.decorated THEN ErroringSlotDuration(k, roll, wire) ELSE wire

\* ---- NewErroring -------------------------------------------------------------
ErrNoNext == "no next service supplied"
ErrRateLow == "error rate cannot be less than 0"
ErrRateHigh == "error rate cannot be more than 1"

\* the operations of the Erroring client that stand for its 47 operations,
\* which all have the body of SlotDuration: one for each shape of result
Ops == {"SlotDuration", "PrysmAttesterDuties", "NodeVersion", "GenesisTime",
        "SubmitAttestations", "SubmitBeaconBlock"}

\* a nil eth2client.Service, and the services implementing some of the operations
NilService == [nil |-> TRUE, supports |-> {}]
Services == {NilService} \cup [nil : {FALSE}, supports : SUBSET Ops]

\* the error rates a caller may pass: below 0, 0, between, 1, above 1, NaN
RateArgs == {Float(n) : n \in (0 - 1)..(RateDen + 1)} \cup {NaN}

NoClient == [nil |-> TRUE]

NewErroring(rate, nxt) ==
  IF nxt.nil THEN [client |-> NoClient, err |-> ErrNoNext]
  ELSE IF Less(rate, Float(0)) THEN [client |-> NoClient, err |-> ErrRateLow]
  ELSE IF Less(Float(RateDen), rate) THEN [client |-> NoClient, err |-> ErrRateHigh]
  ELSE [client |-> [nil |-> FALSE, errorRate |-> rate, next |-> nxt], err |-> None]

\* ---- Service.SlotDuration ------------------------------------------------
\* the type assertion .(eth2client.SlotDurationProvider): *Erroring has the
\* method, a plain client has it or not
IsSlotDurationProvider(k) == k.decorated \/ k.provides

\* a length check that is off by one
NoClientsOffByOne(roster) == Len(roster) = 1

\* len(s.activeClients) == 0
NoClients(roster) == Len(roster) = 0

\* the last entry instead of the first
LastClient(roster) == roster[Len(roster)]

\* s.activeClients[0]
FirstClient(roster) == roster[1]

\* return <endpoint>.SlotDuration(ctx)
Returned(resp) == resp

\* sync.RWMutex: RLock blocks while a writer holds the mutex or waits for it
\* ("a blocked Lock call excludes new readers from acquiring the lock")
CanRLock == writer = "none"

\* an RLock that is not taken
ReaderNotAdded(rs, c) == rs

AddReader(rs, c) == rs \cup {c}

\* an RUnlock that is skipped
ReaderKept(rs, c) == rs

DelReader(rs, c) == rs \ {c}

\* no Erroring client is being created or called on its own
NoErroringCaller ==
  /\ argNext = NilService
  /\ argErrorRate = Float(0)
  /\ erroring = NoClient
  /\ newErr = "pending"
  /\ epc = "off"
  /\ call = [op |-> "none", arg |-> "none"]
  /\ nextLog = <<>>
  /\ nextRet = Outcome("none", "pending")
  /\ ret = Outcome("none", "pending")

Init ==
  /\ activeClients \in Rosters
  /\ readers = {}
  /\ writer = "none"
  /\ pc = [c \in Callers |-> "idle"]
  /\ ctxDone = [c \in Callers |-> FALSE]
  /\ reads = [c \in Callers |-> <<>>]
  /\ invoked = [c \in Callers |-> <<>>]
  /\ response = [c \in Callers |-> NoOutcome]
  /\ result = [c \in Callers |-> NoOutcome]
  /\ probeRequests = {}
  /\ errorRate \in ErrorRates
  /\ NoErroringCaller

\* a caller enters SlotDuration with a fresh context
Call(c) ==
  /\ pc[c] = "idle"
  /\ pc' = [pc EXCEPT ![c] = "rlock"]
  /\ UNCHANGED <<activeClients, readers, writer, ctxDone,
                 reads, invoked, response, result, probeRequests, errorRate>>

\* the caller cancels its context while the operation is running
Cancel(c) ==
  /\ pc[c] \in {"rlock", "check", "select", "inflight"}
  /\ ~ctxDone[c]
  /\ ctxDone' = [ctxDone EXCEPT ![c] = TRUE]
  /\ UNCHANGED <<activeClients, readers, writer, pc,
                 reads, invoked, response, result, probeRequests, errorRate>>

\* s.clientMu.RLock(); defer s.clientMu.RUnlock()
RLock(c) ==
  /\ pc[c] = "rlock"
  /\ CanRLock
  /\ readers' = AddReader(readers, c)
  /\ pc' = [pc EXCEPT ![c] = "check"]
  /\ UNCHANGED <<activeClients, writer, ctxDone,
                 reads, invoked, response, result, probeRequests, errorRate>>

\* if len(s.activeClients) == 0 { return 0, errors.New(...) }, the deferred
\* RUnlock running on the return
CheckEmpty(c) ==
  /\ pc[c] = "check"
  /\ reads' = [reads EXCEPT ![c] = Append(@, activeClients)]
  /\ IF NoClients(activeClients)
       THEN /\ result' = [result EXCEPT ![c] = Outcome(ZeroDuration, ErrNoActive)]
            /\ readers' = DelReader(readers, c)
            /\ pc' = [pc EXCEPT ![c] = "done"]
       ELSE /\ pc' = [pc EXCEPT ![c] = "select"]
            /\ UNCHANGED <<result, readers>>
  /\ UNCHANGED <<activeClients, writer, ctxDone, invoked, response, probeRequests, errorRate>>

\* s.activeClients[0].(eth2client.SlotDurationProvider).SlotDuration(ctx): the
\* index and the type assertion panic when they fail, the deferred RUnlock
\* running while the panic unwinds; otherwise the endpoint call is issued
Select(c) ==
  /\ pc[c] = "select"
  /\ reads' = [reads EXCEPT ![c] = Append(@, activeClients)]
  /\ IF Len(activeClients) = 0
          \/ ~IsSlotDurationProvider(Client(FirstClient(activeClients)))
       THEN /\ readers' = DelReader(readers, c)
            /\ pc' = [pc EXCEPT ![c] = "panicked"]
            /\ UNCHANGED invoked
       ELSE /\ invoked' = [invoked EXCEPT ![c] = Append(@, FirstClient(activeClients))]
            /\ pc' = [pc EXCEPT ![c] = "inflight"]
            /\ UNCHANGED readers
  /\ UNCHANGED <<activeClients, writer, ctxDone, response, result, probeRequests, errorRate>>

\* an endpoint call that, on an error, goes on to the next roster entry
EndpointReturnFailover(c) ==
  /\ pc[c] = "inflight"
  /\ \E roll \in Rolls, wire \in WireSlotDuration(ctxDone[c]) :
       LET tried == Len(invoked[c])
           roster == reads[c][1]
           resp == ClientSlotDuration(Client(invoked[c][tried]), roll, wire)
       IN /\ response' = [response EXCEPT ![c] = resp]
          /\ IF resp.err # None /\ tried < Len(roster)
               THEN /\ invoked' = [invoked EXCEPT ![c] = Append(@, roster[tried + 1])]
                    /\ UNCHANGED <<result, readers, pc>>
               ELSE /\ result' = [result EXCEPT ![c] = Returned(resp)]
                    /\ readers' = DelReader(readers, c)
                    /\ pc' = [pc EXCEPT ![c] = "done"]
                    /\ UNCHANGED invoked
  /\ UNCHANGED <<activeClients, writer, ctxDone, reads, probeRequests, errorRate>>

\* the endpoint call returns and SlotDuration returns its value and error,
\* the deferred RUnlock running on the return
EndpointReturn(c) ==
  /\ pc[c] = "inflight"
  /\ \E roll \in Rolls, wire \in WireSlotDuration(ctxDone[c]) :
       LET resp == ClientSlotDuration(Client(invoked[c][Len(invoked[c])]), roll, wire)
       IN /\ response' = [response EXCEPT ![c] = resp]
          /\ result' = [result EXCEPT ![c] = Returned(resp)]
  /\ readers' = DelReader(readers, c)
  /\ pc' = [pc EXCEPT ![c] = "done"]
  /\ UNCHANGED <<activeClients, writer, ctxDone, reads, invoked, probeRequests, errorRate>>

\* the caller has its answer (or has recovered from the panic) and may call again
Finish(c) ==
  /\ pc[c] \in {"done", "panicked"}
  /\ pc' = [pc EXCEPT ![c] = "idle"]
  /\ ctxDone' = [ctxDone EXCEPT ![c] = FALSE]
  /\ reads' = [reads EXCEPT ![c] = <<>>]
  /\ invoked' = [invoked EXCEPT ![c] = <<>>]
  /\ response' = [response EXCEPT ![c] = NoOutcome]
  /\ result' = [result EXCEPT ![c] = NoOutcome]
  /\ UNCHANGED <<activeClients, readers, writer, probeRequests, errorRate>>

\* ---- roster replacement ---------------------------------------------------
\* s.clientMu.Lock() is called
RefreshLock ==
  /\ writer = "none"
  /\ writer' = "waiting"
  /\ UNCHANGED <<activeClients, readers, pc, ctxDone,
                 reads, invoked, response, result, probeRequests, errorRate>>

\* Lock() returns once no reader holds the mutex
RefreshAcquire ==
  /\ writer = "waiting"
  /\ readers = {}
  /\ writer' = "held"
  /\ UNCHANGED <<activeClients, readers, pc, ctxDone,
                 reads, invoked, response, result, probeRequests, errorRate>>

\* s.activeClients = <the roster built off to the side>; s.clientMu.Unlock()
RefreshSwap ==
  /\ writer = "held"
  /\ \E r \in Rosters : activeClients' = r
  /\ writer' = "none"
  /\ UNCHANGED <<readers, pc, ctxDone,
                 reads, invoked, response, result, probeRequests, errorRate>>

\* a call has returned and its caller has not yet taken note of the outcome
Returning == \E c \in Callers : pc[c] \in {"done", "panicked"}

\* The outcome of a call is a record kept for its caller alone: no other
\* action reads it, and Finish changes nothing else. The caller therefore
\* takes note of it before the next step of anyone else, which leaves out no
\* behaviour of the roster, the mutex or the other calls.
Next ==
  \/ \E c \in Callers : ~Returning /\ Call(c) /\ UNCHANGED erroringVars
  \/ \E c \in Callers : ~Returning /\ Cancel(c) /\ UNCHANGED erroringVars
  \/ \E c \in Callers : ~Returning /\ RLock(c) /\ UNCHANGED erroringVars
  \/ \E c \in Callers : ~Returning /\ CheckEmpty(c) /\ UNCHANGED erroringVars
  \/ \E c \in Callers : ~Returning /\ Select(c) /\ UNCHANGED erroringVars
  \/ \E c \in Callers : ~Returning /\ EndpointReturn(c) /\ UNCHANGED erroringVars
  \/ \E c \in Callers : Finish(c) /\ UNCHANGED erroringVars
  \/ ~Returning /\ RefreshLock /\ UNCHANGED erroringVars
  \/ ~Returning /\ RefreshAcquire /\ UNCHANGED erroringVars
  \/ ~Returning /\ RefreshSwap /\ UNCHANGED erroringVars

Spec == Init /\ [][Next]_vars

\* A Lock that waits is woken when the last reader has unlocked, and a caller
\* to which SlotDuration has returned goes on.
LiveSpec ==
  /\ Spec
  /\ WF_vars(~Returning /\ RefreshAcquire /\ UNCHANGED erroringVars)
  /\ \A c \in Callers : WF_vars(Finish(c) /\ UNCHANGED erroringVars)

TypeOK ==
  /\ activeClients \in Rosters
  /\ readers \subseteq Callers
  /\ writer \in {"none", "waiting", "held"}
  /\ pc \in [Callers -> {"idle", "rlock", "check", "select", "inflight", "done", "panicked"}]
  /\ ctxDone \in [Callers -> BOOLEAN]
  /\ \A c \in Callers : Len(reads[c]) <= 2 /\ Range(reads[c]) \subseteq Rosters
  /\ \A c \in Callers : Range(invoked[c]) \subseteq Endpoints
  /\ \A e \in Endpoints : Client(e) \in ClientKinds
  /\ probeRequests \subseteq Endpoints
  /\ errorRate \in ErrorRates

\* ---- the Erroring client on its own ------------------------------------------
\* the zero value an operation returns with an error; a submission returns
\* an error alone
NoValue == "-"
ZeroValue(op) ==
  CASE op = "SlotDuration" -> "0"
    [] op = "PrysmAttesterDuties" -> "nil"
    [] op = "NodeVersion" -> "empty string"
    [] op = "GenesisTime" -> "time.Time{}"
    [] OTHER -> NoValue

\* what the wrapped service may answer to an operation
NextValues(op) ==
  CASE op = "SlotDuration" -> {"6s", "12s"}
    [] op = "PrysmAttesterDuties" -> {"no duties", "duties"}
    [] op = "NodeVersion" -> {"v1"}
    [] op = "GenesisTime" -> {"t0"}
    [] OTHER -> {NoValue}

NextOutcomes(op) ==
  {Outcome(v, None) : v \in NextValues(op)} \cup {Outcome(ZeroValue(op), ErrEndpoint)}

Args == {"x", "y"}

\* next, isNext := s.next.(eth2client.<the operation's interface>)
IsNext(nxt, op) == op \in nxt.supports

\* an unsupported call that returns no error
DoesNotSupportNoError(op) == Outcome(ZeroValue(op), None)

\* return <zero>, fmt.Errorf("%s@%s does not support this call", ...)
DoesNotSupport(op) == Outcome(ZeroValue(op), ErrUnsupported)

\* the wrapped service's operation called without the caller's argument
ForwardedWithoutArg(op, arg) == [op |-> op, arg |-> "none"]

\* next.<operation>(ctx, <the caller's arguments>)
Forwarded(op, arg) == [op |-> op, arg |-> arg]

\* s.next.Name(), s.next.Address() in the unsupported error's text
NameAndAddress == <<[op |-> "Name", arg |-> "none"], [op |-> "Address", arg |-> "none"]>>

ErroringInit ==
  /\ activeClients = <<>>
  /\ readers = {}
  /\ writer = "none"
  /\ pc = [c \in Callers |-> "idle"]
  /\ ctxDone = [c \in Callers |-> FALSE]
  /\ reads = [c \in Callers |-> <<>>]
  /\ invoked = [c \in Callers |-> <<>>]
  /\ response = [c \in Callers |-> NoOutcome]
  /\ result = [c \in Callers |-> NoOutcome]
  /\ probeRequests = {}
  /\ errorRate = 0
  /\ argNext \in Services
  /\ argErrorRate \in RateArgs
  /\ erroring = NoClient
  /\ newErr = "pending"
  /\ epc = "new"
  /\ call = [op |-> "none", arg |-> "none"]
  /\ nextLog = <<>>
  /\ nextRet = Outcome("none", "pending")
  /\ ret = Outcome("none", "pending")

\* NewErroring(ctx, errorRate, next)
Construct ==
  /\ epc = "new"
  /\ LET made == NewErroring(argErrorRate, argNext)
     IN /\ erroring' = made.client
        /\ newErr' = made.err
        /\ epc' = IF made.err = None THEN "ready" ELSE "rejected"
  /\ UNCHANGED <<argNext, argErrorRate, call, nextLog, nextRet, ret>>

\* the caller calls an operation of the Erroring client
ErroringCall(op, arg) ==
  /\ epc = "ready"
  /\ call' = [op |-> op, arg |-> arg]
  /\ epc' = "roll"
  /\ UNCHANGED <<argNext, argErrorRate, erroring, newErr, nextLog, nextRet, ret>>

\* an operation that calls the wrapped service before it decides on the error
MaybeErrorAfterForward ==
  /\ epc = "roll"
  /\ nextLog' = Append(nextLog, Forwarded(call.op, call.arg))
  /\ \E roll \in Rolls :
       IF maybeError(erroring, roll)
         THEN /\ ret' = Outcome(ZeroValue(call.op), ErrInjected)
              /\ epc' = "returned"
         ELSE /\ epc' = "assert"
              /\ UNCHANGED ret
  /\ UNCHANGED <<argNext, argErrorRate, erroring, newErr, call, nextRet>>

\* if err := s.maybeError(ctx); err != nil { return <zero>, err }
MaybeError ==
  /\ epc = "roll"
  /\ \E roll \in Rolls :
       IF maybeError(erroring, roll)
         THEN /\ ret' = Outcome(ZeroValue(call.op), ErrInjected)
              /\ epc' = "returned"
         ELSE /\ epc' = "assert"
              /\ UNCHANGED ret
  /\ UNCHANGED <<argNext, argErrorRate, erroring, newErr, call, nextLog, nextRet>>

\* next, isNext := s.next.(...); if !isNext { return <zero>, fmt.Errorf(...) }
TypeAssert ==
  /\ epc = "assert"
  /\ IF IsNext(erroring.next, call.op)
       THEN /\ epc' = "forward"
            /\ UNCHANGED <<nextLog, ret>>
       ELSE /\ nextLog' = nextLog \o NameAndAddress
            /\ ret' = DoesNotSupport(call.op)
            /\ epc' = "returned"
  /\ UNCHANGED <<argNext, argErrorRate, erroring, newErr, call, nextRet>>

\* return next.<operation>(ctx, ...): a wrapped service without the
\* operation cannot be called
Forward ==
  /\ epc = "forward"
  /\ nextLog' = Append(nextLog, Forwarded(call.op, call.arg))
  /\ IF call.op \in erroring.next.supports
       THEN \E out \in NextOutcomes(call.op) :
              /\ nextRet' = out
              /\ ret' = out
              /\ epc' = "returned"
       ELSE /\ epc' = "panicked"
            /\ UNCHANGED <<nextRet, ret>>
  /\ UNCHANGED <<argNext, argErrorRate, erroring, newErr, call>>

\* the caller takes the outcome and may call again
ErroringDone ==
  /\ epc = "returned"
  /\ epc' = "ready"
  /\ call' = [op |-> "none", arg |-> "none"]
  /\ nextLog' = <<>>
  /\ nextRet' = Outcome("none", "pending")
  /\ ret' = Outcome("none", "pending")
  /\ UNCHANGED <<argNext, argErrorRate, erroring, newErr>>

ErroringNext ==
  \/ Construct /\ UNCHANGED multiVars
  \/ \E op \in Ops, arg \in Args : ErroringCall(op, arg) /\ UNCHANGED multiVars
  \/ MaybeError /\ UNCHANGED multiVars
  \/ TypeAssert /\ UNCHANGED multiVars
  \/ Forward /\ UNCHANGED multiVars
  \/ ErroringDone /\ UNCHANGED multiVars

ErroringSpec == ErroringInit /\ [][ErroringNext]_vars

\* ---- what a call has seen and done -----------------------------------------
\* the roster read by the emptiness check of caller c's call
Seen(c) == reads[c][1]

\* the endpoint the call has invoked returned, and so did the call
EndpointAnswered(c) == pc[c] = "done" /\ invoked[c] # <<>>

\* the roster entries passing the type assertion of the selection
Capable(roster) == {i \in 1..Len(roster) : IsSlotDurationProvider(Client(roster[i]))}

FirstCapable(roster) ==
  roster[CHOOSE i \in Capable(roster) : \A j \in Capable(roster) : i <= j]

\* ---- C1 ----------------------------------------------------------------------
\* C1 as claimed: when SlotDuration returns an endpoint's error, every entry
\* of the roster it read has been tried.
C1_FailoverOnError ==
  \A c \in Callers :
    (EndpointAnswered(c) /\ result[c].err # None)
      => Range(Seen(c)) \subseteq Range(invoked[c])

\* C1 amended: when the first roster entry returns an error, SlotDuration
\* returns that error as it is and has tried no other roster entry.
C1_FirstErrorReturned ==
  \A c \in Callers :
    (EndpointAnswered(c) /\ response[c].err # None)
      => /\ result[c] = response[c]
         /\ invoked[c] = <<Seen(c)[1]>>

\* a call returned its first endpoint's error while the roster had more entries
C1_Witness ==
  \E c \in Callers :
    /\ EndpointAnswered(c)
    /\ response[c].err # None
    /\ result[c].err = response[c].err
    /\ Len(Seen(c)) >= 2

\* ---- C2 ----------------------------------------------------------------------
\* C2: while an endpoint call of SlotDuration is in flight no caller holds
\* the roster lock for reading, so that a writer could take it at once.
C2_LockFreeDuringCall ==
  (\E c \in Callers : pc[c] = "inflight") => readers = {}

\* ---- C3 ----------------------------------------------------------------------
\* C3: when the roster read is not empty and none of its entries supports
\* SlotDuration, the call does not crash and returns the unsupported error.
C3_CapabilityGapError ==
  \A c \in Callers :
    (Len(reads[c]) >= 1 /\ Seen(c) # <<>> /\ Capable(Seen(c)) = {})
      => /\ pc[c] # "panicked"
         /\ pc[c] = "done" => result[c] = Outcome(ZeroDuration, ErrUnsupported)

\* ---- C4 ----------------------------------------------------------------------
\* C4: when some entry of the roster supports SlotDuration, the call is
\* routed to the first such entry and to no other, and does not crash.
C4_FirstCapableInvoked ==
  \A c \in Callers :
    (Len(reads[c]) = 2 /\ Capable(Seen(c)) # {})
      => /\ pc[c] # "panicked"
         /\ invoked[c] = <<FirstCapable(Seen(c))>>

\* ---- C5 ----------------------------------------------------------------------
\* C5: when the invoked endpoint succeeds, it is the first entry of the
\* roster read, it is the only endpoint invoked, and its value is returned
\* unchanged with no error.
C5_FirstEndpointValueReturned ==
  \A c \in Callers :
    (EndpointAnswered(c) /\ response[c].err = None)
      => /\ invoked[c] = <<Seen(c)[1]>>
         /\ result[c] = response[c]

\* a call returned a duration while the roster had more entries
C5_Witness ==
  \E c \in Callers :
    /\ EndpointAnswered(c)
    /\ response[c].err = None
    /\ result[c].val \in Durations
    /\ Len(Seen(c)) >= 2

\* ---- C6 ----------------------------------------------------------------------
\* C6: a call that reads an empty roster has returned the zero duration with
\* the "no active Ethereum 2 clients" error, has invoked no endpoint and
\* holds the roster lock no more.
C6_EmptyRosterError ==
  \A c \in Callers :
    (Len(reads[c]) >= 1 /\ Seen(c) = <<>>)
      => /\ pc[c] = "done"
         /\ result[c] = Outcome(ZeroDuration, ErrNoActive)
         /\ invoked[c] = <<>>
         /\ c \notin readers

\* a call returned from an empty roster
C6_Witness ==
  \E c \in Callers :
    /\ pc[c] = "done"
    /\ reads[c] = << <<>> >>
    /\ result[c].err = ErrNoActive

\* ---- C7 ----------------------------------------------------------------------
\* C7: once an endpoint call of SlotDuration has returned an error, a probe
\* of that endpoint has been requested.
C7_FastDemotionSignal ==
  \A c \in Callers :
    (EndpointAnswered(c) /\ response[c].err # None)
      => invoked[c][1] \in probeRequests

\* ---- C8 ----------------------------------------------------------------------
\* C8: the selection of the first endpoint reads the roster that the
\* emptiness check has read, and that roster is not empty.
C8_SameRosterSnapshot ==
  \A c \in Callers :
    Len(reads[c]) = 2 => reads[c][2] = reads[c][1] /\ reads[c][2] # <<>>

\* a call has made its selection while a roster replacement waits for the lock
C8_Witness ==
  \E c \in Callers : Len(reads[c]) = 2 /\ writer = "waiting"

\* ---- C9 ----------------------------------------------------------------------
\* C9: a call whose context was cancelled before its endpoint call returned
\* returns the cancellation error and no value.
C9_CancellationReported ==
  \A c \in Callers :
    (EndpointAnswered(c) /\ ctxDone[c])
      => result[c] = Outcome(ZeroDuration, ErrCanceled)

\* ---- C10 ---------------------------------------------------------------------
\* C10: while one caller's endpoint call is in flight, another caller that
\* wants to read the roster can take the read lock.
C10_ReadersNeverBlocked ==
  \A c, d \in Callers :
    (pc[d] = "inflight" /\ pc[c] = "rlock") => CanRLock

\* ---- C14 ---------------------------------------------------------------------
\* a call of SlotDuration is between its RLock and its return
InProgress(c) == pc[c] \in {"check", "select", "inflight"}

\* C14: a caller that is not inside SlotDuration, or has returned from it on
\* any path, holds no read lock; and a roster replacement that waits while no
\* call is in progress gets the lock.
C14_ReadLockReleased ==
  /\ [](\A c \in Callers : ~InProgress(c) => c \notin readers)
  /\ ((writer = "waiting" /\ \A c \in Callers : ~InProgress(c)) ~> writer = "held")

\* a call has ended in the panic of the type assertion while a roster
\* replacement waits, and no read lock is left
C14_Witness ==
  \E c \in Callers : pc[c] = "panicked" /\ writer = "waiting" /\ readers = {}

\* ---- C11 ---------------------------------------------------------------------
\* 0 <= rate <= 1
InUnitInterval(rate) == ~rate.nan /\ 0 <= rate.num /\ rate.num <= RateDen

\* C11: NewErroring returns a client and no error exactly when the wrapped
\* service is not nil and 0 <= errorRate <= 1, and otherwise no client and
\* an error.
C11_NewErroringValidates ==
  epc # "new" =>
    IF ~argNext.nil /\ InUnitInterval(argErrorRate)
      THEN erroring # NoClient /\ newErr = None
      ELSE erroring = NoClient /\ newErr # None

\* ---- C12 ---------------------------------------------------------------------
\* C12: an operation never crashes, and when no error is injected and the
\* wrapped service does not support the operation, it returns the zero value
\* with the "does not support this call" error, having called nothing of the
\* wrapped service but Name and Address.
C12_UnsupportedIsError ==
  /\ epc # "panicked"
  /\ (epc = "returned" /\ ret.err # ErrInjected /\ call.op \notin erroring.next.supports)
       => /\ ret = Outcome(ZeroValue(call.op), ErrUnsupported)
          /\ \A i \in 1..Len(nextLog) : nextLog[i].op \in {"Name", "Address"}

\* an operation the wrapped service lacks has returned the unsupported error
C12_Witness ==
  /\ epc = "returned"
  /\ call.op \notin erroring.next.supports
  /\ ret.err = ErrUnsupported
  /\ Len(nextLog) = 2

\* ---- C13 ---------------------------------------------------------------------
\* C13: the wrapped service is not called before the decision on the error;
\* with an injected error it is not called at all; with none, a supported
\* operation of it is called once, with the caller's argument, and its value
\* and error are returned unchanged.
C13_InjectionPrecedesForwarding ==
  /\ epc \in {"roll", "assert", "forward"} => nextLog = <<>>
  /\ epc = "returned" =>
       IF ret.err = ErrInjected THEN nextLog = <<>>
       ELSE call.op \in erroring.next.supports
              => /\ nextLog = <<[op |-> call.op, arg |-> call.arg]>>
                 /\ ret = nextRet

\* an injected failure of a submission the wrapped service supports has left
\* the wrapped service untouched
C13_Witness ==
  /\ epc = "returned"
  /\ call.op = "SubmitBeaconBlock"
  /\ call.op \in erroring.next.supports
  /\ ret.err = ErrInjected
  /\ nextLog = <<>>
====
